---- MODULE Spec2Model ----
(***************************************************************************)
(* A model of controlnet_ext.py: the discovery of the sd-webui-controlnet  *)
(* extension at module load, the ControlNetExt adapter object, and the     *)
(* memoized model catalog scan.                                            *)
(*                                                                         *)
(* Representation.  A Python str is a TLA+ string (TLC evaluates Len,      *)
(* SubSeq and \o on strings).  Python's None is the value NULL, a string   *)
(* no input set contains; the str "None" is the string "None".  A          *)
(* pathlib.Path is the tuple of its parts, and NoPath where the code has   *)
(* None or "" for a path.  A Python exception is a record [type, msg].     *)
(***************************************************************************)
EXTENDS Integers, Sequences, FiniteSets, TLC

VARIABLES
    \* ---- the host (modules.extensions, modules.shared, the file system, the import system)
    extensions,         \* extensions.active(): a tuple of [name, enabled, path]
    importable,         \* the dotted module names importlib can resolve
    files,              \* the file system entries [dir, name, is_file, hash], as a
                        \* tuple in the order in which the OS lists them
    existing_dirs,      \* the directories for which Path.exists() is true
    opts,               \* shared.opts.data
    cmd_opts,           \* shared.cmd_opts
    \* ---- module-level state of controlnet_ext.py
    pc,                 \* "unloaded" before the module body ran, "loaded" after
    controlnet_exists,
    controlnet_path,
    cn_base_path,
    sys_path,
    cache,              \* the lru_cache of _get_cn_models: NoCache or [value |-> list]
    \* ---- one ControlNetExt object
    cn_models,
    cn_available,
    external_cn,
    \* ---- one request p
    script_args,
    \* ---- what the calls did (observation only)
    ret,                \* the last call: its name, its inputs, its outcome and the
                        \* external calls it made (hashes, listings, units, merges)
    init_log,           \* the outcome of every init_controlnet call, in order
    first_list          \* the value the first detected get_cn_models call returned

vars == <<extensions, importable, files, existing_dirs, opts, cmd_opts,
          pc, controlnet_exists, controlnet_path, cn_base_path, sys_path, cache,
          cn_models, cn_available, external_cn, script_args,
          ret, init_log, first_list>>

hostVars == <<extensions, importable, files, existing_dirs, opts, cmd_opts>>
moduleVars == <<pc, controlnet_exists, controlnet_path, cn_base_path, sys_path>>
adapterVars == <<cn_models, cn_available, external_cn>>

NULL == "<null>"                \* None
NoPath == <<>>                  \* None, or the empty str, where a path is expected
NoCache == [cached |-> FALSE]   \* the lru_cache before the first call

(***************************************************************************)
(* str operations                                                          *)
(***************************************************************************)

\* Python's `k in s` for two str
Contains(k, s) ==
    \E i \in 1..(Len(s) - Len(k) + 1) : SubSeq(s, i, i + Len(k) - 1) = k

Upper == <<"A","B","C","D","E","F","G","H","I","J","K","L","M",
           "N","O","P","Q","R","S","T","U","V","W","X","Y","Z">>
Lower == <<"a","b","c","d","e","f","g","h","i","j","k","l","m",
           "n","o","p","q","r","s","t","u","v","w","x","y","z">>

LowerChar(c) ==
    IF \E i \in 1..Len(Upper) : Upper[i] = c
    THEN Lower[CHOOSE i \in 1..Len(Upper) : Upper[i] = c]
    ELSE c

\* str.lower()
RECURSIVE ToLower(_)
ToLower(s) ==
    IF s = "" THEN ""
    ELSE LowerChar(SubSeq(s, 1, 1)) \o ToLower(SubSeq(s, 2, Len(s)))

\* str.strip(" "): only the space character is stripped
RECURSIVE StripLeft(_)
StripLeft(s) ==
    IF s # "" /\ SubSeq(s, 1, 1) = " " THEN StripLeft(SubSeq(s, 2, Len(s))) ELSE s

RECURSIVE StripRight(_)
StripRight(s) ==
    IF s # "" /\ SubSeq(s, Len(s), Len(s)) = " "
    THEN StripRight(SubSeq(s, 1, Len(s) - 1)) ELSE s

Strip(s) == StripRight(StripLeft(s))

\* sep.join(parts)
RECURSIVE Join(_, _)
Join(parts, sep) ==
    IF Len(parts) = 0 THEN ""
    ELSE IF Len(parts) = 1 THEN parts[1]
    ELSE parts[1] \o sep \o Join(Tail(parts), sep)

(***************************************************************************)
(* pathlib                                                                 *)
(***************************************************************************)

\* str.rfind("."), 1-based; 0 when there is no dot
RFindDot(name) ==
    LET dots == {i \in 1..Len(name) : SubSeq(name, i, i) = "."}
    IN IF dots = {} THEN 0 ELSE CHOOSE i \in dots : \A j \in dots : j <= i

\* PurePath.suffix: the last dot must be neither the first nor the last character
Suffix(name) ==
    LET i == RFindDot(name)
    IN IF 1 < i /\ i < Len(name) THEN SubSeq(name, i, Len(name)) ELSE ""

\* PurePath.stem
Stem(name) ==
    LET i == RFindDot(name)
    IN IF 1 < i /\ i < Len(name) THEN SubSeq(name, 1, i - 1) ELSE name

\* parts[-2:]
LastTwo(parts) ==
    IF Len(parts) <= 2 THEN parts ELSE SubSeq(parts, Len(parts) - 1, Len(parts))

\* Path.parent
Parent(parts) == IF Len(parts) <= 1 THEN parts ELSE SubSeq(parts, 1, Len(parts) - 1)

\* Path.name
Name(parts) == IF Len(parts) = 0 THEN "" ELSE parts[Len(parts)]

\* path.joinpath(child)
JoinPath(parts, child) == Append(parts, child)

\* whether `base` is `dir` or one of its ancestors
IsPrefix(base, dir) ==
    Len(base) <= Len(dir) /\ SubSeq(dir, 1, Len(base)) = base

(***************************************************************************)
(* The keyword table                                                       *)
(***************************************************************************)

\* cn_model_module: a dict, iterated in insertion order
cn_model_module == <<
    [key |-> "inpaint",  value |-> "inpaint_global_harmonious"],
    [key |-> "scribble", value |-> "t2ia_sketch_pidi"],
    [key |-> "lineart",  value |-> "lineart_coarse"],
    [key |-> "openpose", value |-> "openpose_full"],
    [key |-> "tile",     value |-> "tile_resample"],
    [key |-> "depth",    value |-> "depth_midas"],
    [key |-> "ip-adapter-faceid-plusv2", value |-> "ip-adapter_face_id_plus"] >>

\* cn_model_regex.search(s): the union of the keys, none of which holds a
\* regex metacharacter, so a search is a substring test for some key
cn_model_regex_search(s) ==
    \E i \in 1..Len(cn_model_module) : Contains(cn_model_module[i].key, s)

\* [m for m in models if cn_model_regex.search(m)]
RECURSIVE KeepMatching(_)
KeepMatching(models) ==
    IF Len(models) = 0 THEN <<>>
    ELSE IF cn_model_regex_search(Head(models))
         THEN <<Head(models)>> \o KeepMatching(Tail(models))
         ELSE KeepMatching(Tail(models))

(***************************************************************************)
(* Discovery: the module-level loop                                        *)
(***************************************************************************)

NeighborName == "sd-webui-controlnet"

\* Selects without the test of `enabled`
Selects_AnyState(extension) == Contains(NeighborName, extension.name)

\* the loop's test for one extension
Selects(extension) ==
    extension.enabled /\ Contains(NeighborName, extension.name)

\* the loop from extension number i on: `continue` on a disabled extension,
\* `break` on the first enabled one whose name contains the substring
RECURSIVE DiscoverFrom(_, _)
DiscoverFrom(exts, i) ==
    IF i > Len(exts)
    THEN [controlnet_exists |-> FALSE, controlnet_path |-> NoPath, cn_base_path |-> ""]
    ELSE IF Selects(exts[i])
         THEN [controlnet_exists |-> TRUE,
               controlnet_path |-> exts[i].path,
               cn_base_path |-> Join(LastTwo(exts[i].path), ".")]
         ELSE DiscoverFrom(exts, i + 1)

\* the three module globals after the loop
Discover(exts) == DiscoverFrom(exts, 1)

\* lines 38-43: the grandparent of the neighbor joins sys.path once
ExtendSysPath(path, sp) ==
    IF path = NoPath THEN sp
    ELSE LET parent == Parent(path)    \* resolve() of an absolute path without links
             target == Parent(parent)
         IN IF Stem(Name(parent)) \in {"extensions", "extensions-builtin"}
               /\ ~(\E i \in 1..Len(sp) : sp[i] = target)
            THEN Append(sp, target)
            ELSE sp

\* the module body runs once, on import
LoadModule ==
    /\ pc = "unloaded"
    /\ LET d == Discover(extensions)
       IN /\ controlnet_exists' = d.controlnet_exists
          /\ controlnet_path' = d.controlnet_path
          /\ cn_base_path' = d.cn_base_path
          /\ sys_path' = ExtendSysPath(d.controlnet_path, sys_path)
    /\ pc' = "loaded"
    /\ ret' = [op |-> "load", outcome |-> "return"]
    /\ UNCHANGED <<hostVars, cache, adapterVars, script_args, init_log, first_list>>

(***************************************************************************)
(* ControlNetExt                                                           *)
(***************************************************************************)

NoError == [type |-> "", msg |-> ""]

\* importlib's resolution of a name against a package: a leading dot makes
\* the name relative to the package
ResolveName(name, package) ==
    IF name # "" /\ SubSeq(name, 1, 1) = "." THEN package \o name ELSE name

\* line 64
ImportPath(base) == base \o ".scripts.external_code"

\* importlib.import_module(import_path, "external_code"): the module, or an
\* error when the host cannot resolve the name or the module's own import fails
ImportOutcomes(import_path, modules) ==
    LET name == ResolveName(import_path, "external_code")
    IN {[ok |-> FALSE, module |-> NULL,
         error |-> [type |-> "ImportError", msg |-> name]]}
       \cup (IF name \in modules
             THEN {[ok |-> TRUE, module |-> name, error |-> NoError]}
             ELSE {})

\* external_cn.get_models(): the neighbor reports a list of names, or raises
GetModelsOutcomes(reported) ==
    {[ok |-> TRUE, models |-> r, error |-> NoError] : r \in reported}
    \cup {[ok |-> FALSE, models |-> <<>>,
           error |-> [type |-> "RuntimeError", msg |-> "get_models failed"]]}

\* __init__
NewControlNetExt ==
    [cn_models |-> <<"None">>, cn_available |-> FALSE, external_cn |-> NULL]

\* init_controlnet on the object `self`, given what the import and the
\* neighbor's get_models() do: the object after the call and the call's outcome
InitControlnet(self, imp, got) ==
    IF ~imp.ok
    THEN [self |-> self, outcome |-> "raise", error |-> imp.error]
    ELSE LET s1 == [self EXCEPT !.external_cn = imp.module]          \* line 66
             s2 == [s1 EXCEPT !.cn_available = TRUE]                 \* line 67
         IN IF ~got.ok                                               \* line 68
            THEN [self |-> s2, outcome |-> "raise", error |-> got.error]
            ELSE [self |-> [s2 EXCEPT !.cn_models =                  \* line 69
                                @ \o KeepMatching(got.models)],
                  outcome |-> "return", error |-> NoError]

FaceModule == "ip-adapter_face_id_plus"

NoneImage == [is_none |-> TRUE]     \* a unit whose image is None

\* extract_face_id_from_controlnet from argument number i on.  An argument is
\*   [kind |-> "unit", module, image]        a ControlNetUnit; its image is
\*                                           NoneImage or the dict [image |-> v]
\*   [kind |-> "dict", module, input_image]  a dict; NULL for a missing key
\*   [kind |-> "other"]                      anything else
RECURSIVE ExtractFrom(_, _, _)
ExtractFrom(ext, args, i) ==
    IF i > Len(args)
    THEN [outcome |-> "return", value |-> NULL, error |-> NoError]
    ELSE IF ext = NULL
    THEN [outcome |-> "raise", value |-> NULL,
          error |-> [type |-> "AttributeError",
                     msg |-> "'NoneType' object has no attribute 'ControlNetUnit'"]]
    ELSE LET arg == args[i]
         IN IF arg.kind = "unit" /\ arg.module = FaceModule
            THEN IF arg.image = NoneImage
                 THEN [outcome |-> "raise", value |-> NULL,
                       error |-> [type |-> "TypeError",
                                  msg |-> "'NoneType' object is not subscriptable"]]
                 ELSE [outcome |-> "return", value |-> arg.image.image,
                       error |-> NoError]
            ELSE IF arg.kind = "dict" /\ arg.module = FaceModule
                    /\ arg.input_image # NULL
            THEN [outcome |-> "return", value |-> arg.input_image, error |-> NoError]
            ELSE ExtractFrom(ext, args, i + 1)

extract_face_id_from_controlnet(ext, args) == ExtractFrom(ext, args, 1)

\* IsNoOp with `and` for `or`
IsNoOp_Both(available, model) == (~available) /\ model = "None"

\* line 81
IsNoOp(available, model) == (~available) \/ model = "None"

\* lines 85-90: the first value, in table order, whose key is in the model name
RECURSIVE TableLookup(_, _)
TableLookup(model, i) ==
    IF i > Len(cn_model_module) THEN NULL
    ELSE IF Contains(cn_model_module[i].key, model) THEN cn_model_module[i].value
    ELSE TableLookup(model, i + 1)

\* ResolveModule with the last matching key winning: the loop without `break`
ResolveModule_LastMatch(model, module) ==
    LET hits == {i \in 1..Len(cn_model_module) : Contains(cn_model_module[i].key, model)}
    IN IF module = NULL \/ module = "None"
       THEN IF hits = {} THEN NULL
            ELSE cn_model_module[CHOOSE i \in hits : \A j \in hits : j <= i].value
       ELSE module

\* lines 84-90
ResolveModule(model, module) ==
    IF module = NULL \/ module = "None" THEN TableLookup(model, 1) ELSE module

VersionMsg ==
    "[-] Adetailer: ControlNet option not available in WEBUI version lower than 1.6.0 due to updates in ControlNet"

\* TranslateMergeError without the test of the message
TranslateMergeError_Every(e) ==
    IF e.type = "AttributeError"
    THEN [type |-> "RuntimeError", msg |-> VersionMsg]
    ELSE e

\* lines 115-119: what leaves the try statement when the merge raised e
TranslateMergeError(e) ==
    IF e.type = "AttributeError"
    THEN IF ~Contains("script_args_value", e.msg)
         THEN e
         ELSE [type |-> "RuntimeError", msg |-> VersionMsg]
    ELSE e

\* update_scripts_args on the object `self`, for a request whose script_args
\* is p_args and the arguments `call`, given what the neighbor's
\* update_cn_script_in_processing does (`merge`)
UpdateScriptsArgs(self, p_args, call, merge) ==
    LET quiet == [self |-> self, outcome |-> "return", error |-> NoError,
                  units |-> <<>>, merge_called |-> FALSE, script_args |-> p_args]
    IN
    IF IsNoOp(self.cn_available, call.model) THEN quiet
    ELSE
    LET mod == ResolveModule(call.model, call.module)
        probe == mod = FaceModule /\ call.input_image = NULL
        found == IF probe
                 THEN extract_face_id_from_controlnet(self.external_cn, p_args)
                 ELSE [outcome |-> "return", value |-> NULL, error |-> NoError]
    IN
    IF found.outcome = "raise"
    THEN [quiet EXCEPT !.outcome = "raise", !.error = found.error]
    ELSE
    LET reuse == probe /\ found.value # NULL
        image == IF reuse THEN found.value ELSE call.input_image
        crop == IF reuse THEN FALSE ELSE call.input_image = NULL
        unit == [kind |-> "unit",
                 model |-> call.model,
                 weight |-> call.weight,
                 control_mode |-> "BALANCED",
                 module |-> mod,
                 guidance_start |-> call.guidance_start,
                 guidance_end |-> call.guidance_end,
                 pixel_perfect |-> TRUE,
                 image |-> image,
                 inpaint_crop_input_image |-> crop]
    IN
    \* line 114: the neighbor puts the units into p.script_args, or raises
    IF merge.ok
    THEN [self |-> self, outcome |-> "return", error |-> NoError,
          units |-> <<unit>>, merge_called |-> TRUE,
          script_args |-> Append(p_args, unit)]
    ELSE [self |-> self, outcome |-> "raise",
          error |-> TranslateMergeError(merge.error),
          units |-> <<unit>>, merge_called |-> TRUE, script_args |-> p_args]

(***************************************************************************)
(* The model catalog                                                       *)
(***************************************************************************)

\* modules.paths.models_path
models_path == <<"webui", "models">>

cn_model_exts == {".pt", ".pth", ".ckpt", ".safetensors", ".bin"}

\* [Path(d) for d in ds if d]
RECURSIVE Truthy(_)
Truthy(ds) ==
    IF Len(ds) = 0 THEN <<>>
    ELSE IF Head(ds) # NoPath THEN <<Head(ds)>> \o Truthy(Tail(ds))
    ELSE Truthy(Tail(ds))

get_cn_model_dirs(cpath, o, c) ==
    LET cn_model_dir == JoinPath(models_path, "ControlNet")
        cn_model_dir_old == IF cpath # NoPath THEN JoinPath(cpath, "models") ELSE NoPath
        ext_dir1 == o.control_net_models_path
        ext_dir2 == c.controlnet_dir
    IN <<cn_model_dir>> \o Truthy(<<cn_model_dir_old, ext_dir1, ext_dir2>>)

\* the characters of the file names, in code point order
Alphabet == " -.0123456789ABCDEFGHIJKLMNOPQRSTUVWXYZ[]_abcdefghijklmnopqrstuvwxyz"

Rank(c) == CHOOSE i \in 1..Len(Alphabet) : SubSeq(Alphabet, i, i) = c

\* a < b for two str
RECURSIVE StrLess(_, _)
StrLess(a, b) ==
    IF b = "" THEN FALSE
    ELSE IF a = "" THEN TRUE
    ELSE LET x == Rank(SubSeq(a, 1, 1))
             y == Rank(SubSeq(b, 1, 1))
         IN IF x # y THEN x < y
            ELSE StrLess(SubSeq(a, 2, Len(a)), SubSeq(b, 2, Len(b)))

\* the test of lines 169-175 for one entry
Keeps(p, name_filter) ==
    /\ p.is_file
    /\ Suffix(p.name) \in cn_model_exts
    /\ cn_model_regex_search(p.name)
    /\ ~(name_filter # "" /\ ~Contains(name_filter, ToLower(p.name)))

\* the entries base.rglob("*") yields that pass the test, in listing order
RECURSIVE Glob(_, _, _)
Glob(base, fs, name_filter) ==
    IF Len(fs) = 0 THEN <<>>
    ELSE IF IsPrefix(base, Head(fs).dir) /\ Keeps(Head(fs), name_filter)
         THEN <<Head(fs)>> \o Glob(base, Tail(fs), name_filter)
         ELSE Glob(base, Tail(fs), name_filter)

\* the loop over dirs: a directory that does not exist is skipped
RECURSIVE Collect(_, _, _, _)
Collect(dirs, fs, present, name_filter) ==
    IF Len(dirs) = 0 THEN <<>>
    ELSE (IF Head(dirs) \in present THEN Glob(Head(dirs), fs, name_filter) ELSE <<>>)
         \o Collect(Tail(dirs), fs, present, name_filter)

\* list.sort(key=lambda p: p.name): stable
RECURSIVE Insert(_, _)
Insert(sorted, p) ==
    IF Len(sorted) = 0 THEN <<p>>
    ELSE IF StrLess(p.name, Head(sorted).name) THEN <<p>> \o sorted
    ELSE <<Head(sorted)>> \o Insert(Tail(sorted), p)

RECURSIVE SortByName(_)
SortByName(ps) ==
    IF Len(ps) = 0 THEN <<>>
    ELSE Insert(SortByName(SubSeq(ps, 1, Len(ps) - 1)), ps[Len(ps)])

\* f"{p.stem} [{model_hash}]"
ModelName(p) == Stem(p.name) \o " [" \o p.hash \o "]"

RECURSIVE ModelNames(_)
ModelNames(ps) ==
    IF Len(ps) = 0 THEN <<>> ELSE <<ModelName(Head(ps))>> \o ModelNames(Tail(ps))

\* the existing directories among dirs
Listed(dirs, present) == Cardinality({i \in 1..Len(dirs) : dirs[i] \in present})

\* the body of _get_cn_models: the list, and the files hashed and the
\* directories listed on the way
ScanModels(cpath, o, c, fs, present) ==
    LET dirs == get_cn_model_dirs(cpath, o, c)
        name_filter == ToLower(Strip(o.control_net_models_name_filter))
        model_paths == SortByName(Collect(dirs, fs, present, name_filter))
    IN [value |-> ModelNames(model_paths),
        hashed |-> Len(model_paths),
        listed |-> Listed(dirs, present)]

\* CachedCall without the cache: the body runs on every call
CachedCall_Fresh(cch, scan) ==
    [value |-> scan.value, cache |-> [cached |-> TRUE, value |-> scan.value],
     hashed |-> scan.hashed, listed |-> scan.listed]

\* @lru_cache on a function without parameters: the body runs when nothing is
\* cached, and its result is cached
CachedCall(cch, scan) ==
    IF cch.cached
    THEN [value |-> cch.value, cache |-> cch, hashed |-> 0, listed |-> 0]
    ELSE [value |-> scan.value, cache |-> [cached |-> TRUE, value |-> scan.value],
          hashed |-> scan.hashed, listed |-> scan.listed]

\* GetCnModels without the test of controlnet_exists
GetCnModels_Unguarded(exists, cch, scan) == CachedCall(cch, scan)

\* get_cn_models
GetCnModels(exists, cch, scan) ==
    IF exists THEN CachedCall(cch, scan)
    ELSE [value |-> <<>>, cache |-> cch, hashed |-> 0, listed |-> 0]

(***************************************************************************)
(* Bounds and input sets                                                   *)
(***************************************************************************)

MaxExt == 3         \* extensions the host reports
MaxInits == 2       \* init_controlnet calls on the object
MaxArgs == 3        \* script arguments of a request
MaxFiles == 3       \* entries of the file system

\* the tuples of length at most n over S
SeqsUpTo(S, n) == UNION {[1..k -> S] : k \in 0..n}

\* those without a repeated element
DistinctSeqsUpTo(S, n) ==
    {q \in SeqsUpTo(S, n) : \A i, j \in 1..Len(q) : q[i] = q[j] => i = j}

Extension(name, enabled, root) ==
    [name |-> name, enabled |-> enabled, path |-> <<"webui", root, name>>]

ExtensionChoices ==
    {Extension(n, e, r) :
        n \in {"sd-webui-controlnet", "sd-webui-controlnet-master", "adetailer"},
        e \in BOOLEAN,
        r \in {"extensions", "extensions-builtin"}}

\* the hosts of the adapter specification
AdapterHosts ==
    { <<>>,
      <<Extension("sd-webui-controlnet", TRUE, "extensions")>>,
      <<Extension("sd-webui-controlnet", FALSE, "extensions")>>,
      <<Extension("adetailer", TRUE, "extensions"),
        Extension("sd-webui-controlnet-master", TRUE, "extensions")>>,
      <<Extension("sd-webui-controlnet", FALSE, "extensions"),
        Extension("sd-webui-controlnet-master", TRUE, "extensions-builtin")>> }

\* the host with the neighbor installed and enabled
NeighborHost == <<Extension("sd-webui-controlnet", TRUE, "extensions")>>

\* the external_code modules the installed neighbors of a host could provide
NeighborModules(exts) ==
    {ImportPath(Join(LastTwo(exts[i].path), ".")) :
        i \in {j \in 1..Len(exts) : Contains(NeighborName, exts[j].name)}}

ReportedLists ==
    { <<>>,
      <<"control_v11f1p_sd15_depth">>,
      <<"control_v11p_sd15_canny", "control_v11p_sd15_openpose">> }

Models ==
    {"None", "control_v11f1p_sd15_depth", "control_tile_depth_xl",
     "ip-adapter-faceid-plusv2_sd15", "control_v11p_sd15_canny"}

Modules == {NULL, "None", "canny", FaceModule}

Calls ==
    [model : Models, module : Modules, weight : {10},
     guidance_start : {0}, guidance_end : {10}, input_image : {NULL, "img_in"}]

MergeErrors ==
    { [type |-> "AttributeError",
       msg |-> "'Processing' object has no attribute 'script_args_value'"],
      [type |-> "AttributeError",
       msg |-> "'NoneType' object has no attribute 'alwayson_scripts'"],
      [type |-> "ValueError", msg |-> "script_args_value is empty"] }

NoMerge == [ok |-> TRUE, error |-> NoError]

MergeOutcomes == {NoMerge} \cup {[ok |-> FALSE, error |-> e] : e \in MergeErrors}

UnitArg(module, image) == [kind |-> "unit", module |-> module, image |-> image]
DictArg(module, input_image) ==
    [kind |-> "dict", module |-> module, input_image |-> input_image]

ArgChoices ==
    { UnitArg(FaceModule, [image |-> "face_u"]),
      UnitArg(FaceModule, NoneImage),
      UnitArg("canny", [image |-> "edge_u"]),
      DictArg(FaceModule, "face_d"),
      DictArg(FaceModule, NULL),
      DictArg("canny", "edge_d"),
      [kind |-> "other"] }

\* the script arguments of the requests update_scripts_args is called for
Requests ==
    { <<>>,
      <<[kind |-> "other"], DictArg(FaceModule, "face_d")>>,
      <<UnitArg(FaceModule, [image |-> "face_u"])>>,
      <<UnitArg(FaceModule, NoneImage)>> }

\* the calls: every call for a request without script arguments, and the
\* calls that may resolve to the face-identity module for every request
CallCases ==
    [p_args : {<<>>}, call : Calls]
    \cup [p_args : Requests,
          call : {c \in Calls : c.module = FaceModule
                                \/ Contains("ip-adapter-faceid-plusv2", c.model)}]

\* the calls of the lifecycle specification
PlainCases ==
    [p_args : {<<[kind |-> "other"]>>},
     call : {c \in Calls : c.module = NULL /\ c.input_image = NULL
                           /\ c.model \in {"None", "control_v11f1p_sd15_depth"}}]

\* the objects that zero or one call of init_controlnet leaves, on a host
\* with the given import prefix and modules
AdapterStates(base, modules) ==
    {NewControlNetExt}
    \cup {InitControlnet(NewControlNetExt, imp, got).self :
            imp \in ImportOutcomes(ImportPath(base), modules),
            got \in GetModelsOutcomes({<<"control_v11f1p_sd15_depth">>})}

MainDir == <<"webui", "models", "ControlNet">>
SubDir == <<"webui", "models", "ControlNet", "sd15">>
OldDir == <<"webui", "extensions", "sd-webui-controlnet", "models">>
UserDir == <<"data", "cn">>

File(dir, name, is_file, hash) ==
    [dir |-> dir, name |-> name, is_file |-> is_file, hash |-> hash]

FileChoices ==
    { File(MainDir, "openpose_v1.safetensors", TRUE, "a1b2c3d4"),
      File(MainDir, "randomfile.txt", TRUE, "00000001"),
      File(SubDir, "control_depth.pth", TRUE, "0badf00d"),
      File(OldDir, "tile_XL.ckpt", TRUE, "12345678"),
      File(OldDir, "depth.yaml", TRUE, "00000002"),
      File(UserDir, "inpaint.bin", TRUE, "deadbeef"),
      File(UserDir, "model.pt", TRUE, "00000003"),
      File(UserDir, "openpose_v1.safetensors", TRUE, "ffff0000"),
      File(MainDir, "lineart.pt", FALSE, "00000004") }

\* the entries of the catalog specification
CatalogFiles ==
    { File(MainDir, "openpose_v1.safetensors", TRUE, "a1b2c3d4"),
      File(OldDir, "tile_XL.ckpt", TRUE, "12345678"),
      File(UserDir, "inpaint.bin", TRUE, "deadbeef"),
      File(UserDir, "model.pt", TRUE, "00000003") }

DirSets == { {MainDir, SubDir, OldDir, UserDir}, {MainDir, SubDir, OldDir} }

NameFilters == {"", " XL ", "pose"}

Opts ==
    [control_net_models_path : {NoPath, UserDir, MainDir},
     control_net_models_name_filter : NameFilters]

CmdOpts == [controlnet_dir : {NoPath, UserDir}]

\* no entry lies in a directory that does not exist
Consistent(fs, present) == \A i \in 1..Len(fs) : fs[i].dir \in present

(***************************************************************************)
(* The operations                                                          *)
(***************************************************************************)

Self == [cn_models |-> cn_models, cn_available |-> cn_available,
         external_cn |-> external_cn]

SetSelf(self) ==
    /\ cn_models' = self.cn_models
    /\ cn_available' = self.cn_available
    /\ external_cn' = self.external_cn

init_controlnet ==
    /\ pc = "loaded"
    /\ Len(init_log) < MaxInits
    /\ \E imp \in ImportOutcomes(ImportPath(cn_base_path), importable),
          got \in GetModelsOutcomes(ReportedLists) :
          LET r == InitControlnet(Self, imp, got)
          IN /\ SetSelf(r.self)
             /\ ret' = [op |-> "init_controlnet", outcome |-> r.outcome,
                        error |-> r.error]
             /\ init_log' = Append(init_log,
                    [outcome |-> r.outcome,
                     imported |-> imp.ok,
                     models |-> IF r.outcome = "return" THEN got.models ELSE <<>>])
    /\ UNCHANGED <<hostVars, moduleVars, cache, script_args, first_list>>

\* a call of update_scripts_args for one of the given requests and arguments
Apply(cases) ==
    /\ pc = "loaded"
    /\ \E c \in cases, merge \in MergeOutcomes :
          LET r == UpdateScriptsArgs(Self, c.p_args, c.call, merge)
          IN /\ SetSelf(r.self)
             /\ script_args' = r.script_args
             /\ ret' = [op |-> "update_scripts_args",
                        before |-> Self,
                        p_args |-> c.p_args,
                        call |-> c.call,
                        merge |-> IF r.merge_called THEN merge ELSE NoMerge,
                        outcome |-> r.outcome,
                        error |-> r.error,
                        units |-> r.units,
                        merge_called |-> r.merge_called]
    /\ UNCHANGED <<hostVars, moduleVars, cache, init_log, first_list>>

update_scripts_args == Apply(CallCases)

extract_face_id ==
    /\ pc = "loaded"
    /\ \E args \in SeqsUpTo(ArgChoices, MaxArgs) :
          LET r == extract_face_id_from_controlnet(external_cn, args)
          IN /\ script_args' = args
             /\ ret' = [op |-> "extract_face_id_from_controlnet",
                        external_cn |-> external_cn,
                        args |-> args,
                        outcome |-> r.outcome,
                        value |-> r.value,
                        error |-> r.error]
    /\ UNCHANGED <<hostVars, moduleVars, cache, adapterVars, init_log, first_list>>

get_cn_models ==
    /\ pc = "loaded"
    /\ LET scan == ScanModels(controlnet_path, opts, cmd_opts, files, existing_dirs)
           r == GetCnModels(controlnet_exists, cache, scan)
       IN /\ cache' = r.cache
          /\ ret' = [op |-> "get_cn_models",
                     first |-> ~first_list.set,
                     value |-> r.value,
                     hashed |-> r.hashed,
                     listed |-> r.listed]
          /\ first_list' = IF controlnet_exists /\ ~first_list.set
                           THEN [set |-> TRUE, value |-> r.value]
                           ELSE first_list
    /\ UNCHANGED <<hostVars, moduleVars, adapterVars, script_args, init_log>>

\* the host: a model file is dropped into a directory
AddFile ==
    /\ Len(files) < MaxFiles
    /\ \E f \in CatalogFiles :
          /\ \A i \in 1..Len(files) : files[i] # f
          /\ f.dir \in existing_dirs
          /\ files' = Append(files, f)
    /\ ret' = [op |-> "host"]
    /\ UNCHANGED <<extensions, importable, existing_dirs, opts, cmd_opts,
                   moduleVars, cache, adapterVars, script_args, init_log, first_list>>

\* the host: a file is deleted
RemoveFile ==
    /\ \E i \in 1..Len(files) :
          files' = SubSeq(files, 1, i - 1) \o SubSeq(files, i + 1, Len(files))
    /\ ret' = [op |-> "host"]
    /\ UNCHANGED <<extensions, importable, existing_dirs, opts, cmd_opts,
                   moduleVars, cache, adapterVars, script_args, init_log, first_list>>

\* the host: the user changes the settings
SetOptions ==
    /\ \E o \in Opts :
          /\ o # opts
          /\ opts' = o
    /\ ret' = [op |-> "host"]
    /\ UNCHANGED <<extensions, importable, files, existing_dirs, cmd_opts,
                   moduleVars, cache, adapterVars, script_args, init_log, first_list>>

(***************************************************************************)
(* Specifications                                                          *)
(***************************************************************************)

\* the object, the request and the observations before any call
InitObject ==
    /\ cache = NoCache
    /\ cn_models = NewControlNetExt.cn_models
    /\ cn_available = NewControlNetExt.cn_available
    /\ external_cn = NewControlNetExt.external_cn
    /\ script_args = <<>>
    /\ ret = [op |-> "none"]
    /\ init_log = <<>>
    /\ first_list = [set |-> FALSE]

\* before the module body ran
InitUnloaded ==
    /\ pc = "unloaded"
    /\ controlnet_exists = FALSE
    /\ controlnet_path = NoPath
    /\ cn_base_path = ""

\* after the module body ran on the host's extensions
InitLoaded ==
    /\ pc = "loaded"
    /\ controlnet_exists = Discover(extensions).controlnet_exists
    /\ controlnet_path = Discover(extensions).controlnet_path
    /\ cn_base_path = Discover(extensions).cn_base_path
    /\ sys_path = ExtendSysPath(Discover(extensions).controlnet_path, <<>>)

\* a host with two model files and default settings
InitPlainFiles ==
    /\ files = << File(MainDir, "openpose_v1.safetensors", TRUE, "a1b2c3d4"),
                  File(OldDir, "tile_XL.ckpt", TRUE, "12345678") >>
    /\ existing_dirs = {MainDir, SubDir, OldDir, UserDir}
    /\ opts = [control_net_models_path |-> NoPath,
               control_net_models_name_filter |-> ""]
    /\ cmd_opts = [controlnet_dir |-> NoPath]

\* the object of AdapterStates on the loaded module
InitSomeObject ==
    /\ cache = NoCache
    /\ \E self \in AdapterStates(Discover(extensions).cn_base_path, importable) :
          /\ cn_models = self.cn_models
          /\ cn_available = self.cn_available
          /\ external_cn = self.external_cn
    /\ script_args = <<>>
    /\ ret = [op |-> "none"]
    /\ init_log = <<>>
    /\ first_list = [set |-> FALSE]

\* The lifecycle: any of the hosts, the module load, then any calls
Init ==
    /\ extensions \in AdapterHosts
    /\ importable \in SUBSET NeighborModules(extensions)
    /\ InitPlainFiles
    /\ InitUnloaded
    /\ sys_path = <<>>
    /\ InitObject

Next ==
    \/ LoadModule
    \/ init_controlnet
    \/ Apply(PlainCases)
    \/ get_cn_models

Spec == Init /\ [][Next]_vars

\* Discovery: every list of extensions, and the module load
InitDiscovery ==
    /\ extensions \in SeqsUpTo(ExtensionChoices, MaxExt)
    /\ importable = {}
    /\ InitPlainFiles
    /\ InitUnloaded
    /\ sys_path \in {<<>>, << <<"webui">> >>}
    /\ InitObject

NextDiscovery == LoadModule

SpecDiscovery == InitDiscovery /\ [][NextDiscovery]_vars

\* update_scripts_args: every call on every object
InitApply ==
    /\ extensions = NeighborHost
    /\ importable = NeighborModules(extensions)
    /\ InitPlainFiles
    /\ InitLoaded
    /\ InitSomeObject

NextApply == update_scripts_args

SpecApply == InitApply /\ [][NextApply]_vars

\* extract_face_id_from_controlnet: every tuple of script arguments
InitExtract ==
    /\ extensions = NeighborHost
    /\ importable = NeighborModules(extensions)
    /\ InitPlainFiles
    /\ InitLoaded
    /\ InitSomeObject

NextExtract == extract_face_id

SpecExtract == InitExtract /\ [][NextExtract]_vars

\* The scan: every file system and every setting, and one call
InitScan ==
    /\ extensions = NeighborHost
    /\ importable = NeighborModules(extensions)
    /\ existing_dirs \in DirSets
    /\ files \in {fs \in DistinctSeqsUpTo(FileChoices, MaxFiles) :
                     Consistent(fs, existing_dirs)}
    /\ opts \in Opts
    /\ cmd_opts \in CmdOpts
    /\ InitLoaded
    /\ InitObject

NextScan == get_cn_models

SpecScan == InitScan /\ [][NextScan]_vars

\* The catalog: calls of get_cn_models while the host changes
InitCatalog ==
    /\ extensions = NeighborHost
    /\ importable = NeighborModules(extensions)
    /\ existing_dirs = {MainDir, SubDir, OldDir, UserDir}
    /\ files \in DistinctSeqsUpTo(CatalogFiles, 1)
    /\ opts \in Opts
    /\ cmd_opts = [controlnet_dir |-> NoPath]
    /\ InitLoaded
    /\ InitObject

NextCatalog ==
    \/ get_cn_models
    \/ AddFile
    \/ RemoveFile
    \/ SetOptions

SpecCatalog == InitCatalog /\ [][NextCatalog]_vars

(***************************************************************************)
(* Properties                                                              *)
(***************************************************************************)

IsApply == ret.op = "update_scripts_args"
IsExtract == ret.op = "extract_face_id_from_controlnet"
IsGet == ret.op = "get_cn_models"

\* C1: a call of update_scripts_args on an object that is not available, or
\* with the model "None", returns without error, builds no unit, does not
\* call the neighbor's merge function, and leaves p.script_args and the
\* object's cn_available, cn_models and external_cn as they were.
C1_NoOpLeavesAll ==
    (IsApply /\ ((~ret.before.cn_available) \/ ret.call.model = "None"))
    => /\ ret.outcome = "return"
       /\ ret.error = NoError
       /\ ret.units = <<>>
       /\ ~ret.merge_called
       /\ script_args = ret.p_args
       /\ Self = ret.before

\* C1 happens: an available object is called with the model "None" for a
\* request that has script arguments
C1_Witness ==
    /\ IsApply
    /\ ret.before.cn_available
    /\ ret.call.model = "None"
    /\ ret.p_args # <<>>
    /\ script_args = ret.p_args

\* the numbers of the table's keys that are substrings of the model name
MatchingKeys(model) ==
    {i \in 1..Len(cn_model_module) : Contains(cn_model_module[i].key, model)}

\* the value of the first of them in table order, NULL when there is none
FirstMatchValue(model) ==
    IF MatchingKeys(model) = {} THEN NULL
    ELSE cn_model_module[CHOOSE i \in MatchingKeys(model) :
                            \A j \in MatchingKeys(model) : i <= j].value

TableOrder ==
    <<"inpaint", "scribble", "lineart", "openpose", "tile", "depth",
      "ip-adapter-faceid-plusv2">>

\* C4: the unit update_scripts_args builds carries, when the caller gave no
\* module (None, or the sentinel "None"), the value of the first key in the
\* order inpaint, scribble, lineart, openpose, tile, depth,
\* ip-adapter-faceid-plusv2 that is a substring of the model name, and NULL
\* when no key is; a name with "depth" and no earlier key gives "depth_midas",
\* a name with "tile" and "depth" gives "tile_resample".  A module the caller
\* gave is passed through.
C4_ModuleResolution ==
    /\ \A i \in 1..Len(TableOrder) : cn_model_module[i].key = TableOrder[i]
    /\ (IsApply /\ ret.units # <<>>)
       => LET unit == ret.units[1]
              model == ret.call.model
              given == ret.call.module
          IN /\ Len(ret.units) = 1
             /\ given \notin {NULL, "None"} => unit.module = given
             /\ given \in {NULL, "None"} =>
                  /\ unit.module = FirstMatchValue(model)
                  /\ (MatchingKeys(model) = {}) => unit.module = NULL
                  /\ (Contains("depth", model) /\ \A i \in MatchingKeys(model) : i >= 6)
                        => unit.module = "depth_midas"
                  /\ (Contains("tile", model) /\ Contains("depth", model)
                        /\ \A i \in MatchingKeys(model) : i >= 5)
                        => unit.module = "tile_resample"

\* C4 happens: a model name with "tile" and "depth" and no module given
C4_Witness ==
    /\ IsApply
    /\ ret.units # <<>>
    /\ ret.call.module = NULL
    /\ Contains("tile", ret.call.model)
    /\ Contains("depth", ret.call.model)
    /\ ret.units[1].module = "tile_resample"

IsVersionError(e) == e.type = "RuntimeError" /\ e.msg = VersionMsg

\* C7: when the neighbor's merge call raises, update_scripts_args raises: the
\* RuntimeError that cites version 1.6.0 if and only if the error is an
\* AttributeError whose message mentions "script_args_value", and otherwise
\* the very error the merge raised.
C7_MergeErrors ==
    (IsApply /\ ret.merge_called /\ ~ret.merge.ok)
    => LET e == ret.merge.error
           shape == e.type = "AttributeError" /\ Contains("script_args_value", e.msg)
       IN /\ ret.outcome = "raise"
          /\ IsVersionError(ret.error) <=> shape
          /\ shape => Contains("1.6.0", ret.error.msg)
          /\ ~shape => ret.error = e

\* C7 happens: the merge raised an AttributeError about something else, and
\* another kind of error that mentions script_args_value
C7_Witness ==
    /\ IsApply
    /\ ret.merge_called
    /\ ~ret.merge.ok
    /\ ret.merge.error.type = "AttributeError"
    /\ ~Contains("script_args_value", ret.merge.error.msg)
    /\ ret.error = ret.merge.error

\* the numbers of the extensions that are enabled and carry the name
EnabledNeighbors ==
    {i \in 1..Len(extensions) :
        extensions[i].enabled /\ Contains("sd-webui-controlnet", extensions[i].name)}

\* C8: after the load the neighbor is the first extension in list order that
\* is enabled and whose name contains "sd-webui-controlnet"; controlnet_path
\* is its path and cn_base_path its last two path segments joined by a dot;
\* with no such extension controlnet_exists is false, controlnet_path is None
\* and the load does not fail.
C8_FirstEnabledMatch ==
    (pc = "loaded")
    => /\ ret.outcome = "return"
       /\ IF EnabledNeighbors = {}
          THEN /\ ~controlnet_exists
               /\ controlnet_path = NoPath
               /\ cn_base_path = ""
          ELSE LET first == CHOOSE i \in EnabledNeighbors :
                                \A j \in EnabledNeighbors : i <= j
                   path == extensions[first].path
               IN /\ controlnet_exists
                  /\ controlnet_path = path
                  /\ cn_base_path = path[Len(path) - 1] \o "." \o path[Len(path)]

\* C8 happens: a disabled match comes first, and two enabled matches follow
C8_Witness ==
    /\ pc = "loaded"
    /\ Len(extensions) = 3
    /\ Contains("sd-webui-controlnet", extensions[1].name)
    /\ ~extensions[1].enabled
    /\ EnabledNeighbors = {2, 3}
    /\ extensions[2].path # extensions[3].path
    /\ extensions[1].path # extensions[2].path
    /\ controlnet_path = extensions[2].path

\* C2: on a host without an enabled extension whose name contains
\* "sd-webui-controlnet", cn_available is false in every state, and every
\* call of get_cn_models returns the empty list, lists no directory and
\* hashes no file.
C2_AbsentNeighbor ==
    (EnabledNeighbors = {})
    => /\ ~cn_available
       /\ IsGet => (ret.value = <<>> /\ ret.hashed = 0 /\ ret.listed = 0
                    /\ cache = NoCache)

\* C2 happens: the only matching extension is disabled though its module
\* could be imported, init_controlnet was called, the model directories hold
\* model files, and get_cn_models was called
C2_Witness ==
    /\ EnabledNeighbors = {}
    /\ \E i \in 1..Len(extensions) : Contains("sd-webui-controlnet", extensions[i].name)
    /\ importable # {}
    /\ Len(init_log) > 0
    /\ Len(files) > 0
    /\ IsGet

\* C3: with the neighbor detected, every call of get_cn_models returns the
\* list the first call returned, and no call after the first lists a
\* directory or hashes a file, whatever the host did in between.
C3_Memoized ==
    /\ (cache # NoCache /\ first_list.set) => cache.value = first_list.value
    /\ IsGet => /\ first_list.set
                /\ ret.value = first_list.value
                /\ ~ret.first => (ret.hashed = 0 /\ ret.listed = 0)

\* C3 happens: a later call returned the first list although a scan of the
\* host as it is now would give another
C3_Witness ==
    /\ IsGet
    /\ ~ret.first
    /\ ret.value = first_list.value
    /\ ScanModels(controlnet_path, opts, cmd_opts, files, existing_dirs).value # ret.value
    /\ Len(files) > 0

\* the model directories: the host's, the neighbor's own, and the two the
\* user may configure
ModelDirs ==
    {MainDir}
    \cup (IF controlnet_exists THEN {Append(controlnet_path, "models")} ELSE {})
    \cup ({opts.control_net_models_path, cmd_opts.controlnet_dir} \ {NoPath})

\* the entries whose file the catalog is to hold
Qualifies(f) ==
    /\ f.is_file
    /\ \E d \in ModelDirs : d \in existing_dirs /\ IsPrefix(d, f.dir)
    /\ \E x \in {".pt", ".pth", ".ckpt", ".safetensors", ".bin"} :
          Len(f.name) > Len(x)
          /\ SubSeq(f.name, Len(f.name) - Len(x) + 1, Len(f.name)) = x
    /\ \E i \in 1..Len(TableOrder) : Contains(TableOrder[i], f.name)
    /\ LET wanted == ToLower(Strip(opts.control_net_models_name_filter))
       IN wanted # "" => Contains(wanted, ToLower(f.name))

QualifyingFiles == {i \in 1..Len(files) : Qualifies(files[i])}

EntryOf(f) == Stem(f.name) \o " [" \o f.hash \o "]"

\* C5: the catalog of the first scan holds one entry "<stem> [<hash>]" for
\* each regular file under an existing model directory with one of the five
\* extensions, a keyword in its name and, when the trimmed lower-cased name
\* filter is not empty, the filter in its lower-cased name; and no other
\* entry.
C5_OneEntryPerFile ==
    (IsGet /\ ret.first)
    => /\ {ret.value[k] : k \in 1..Len(ret.value)}
            = {EntryOf(files[i]) : i \in QualifyingFiles}
       /\ Len(ret.value) = Cardinality(QualifyingFiles)

\* the same files, whatever the number of entries of each: what the scan
\* does keep of C5
C5_SameFiles ==
    (IsGet /\ ret.first)
    => {ret.value[k] : k \in 1..Len(ret.value)}
          = {EntryOf(files[i]) : i \in QualifyingFiles}

IsFaceUnit(arg) == arg.kind = "unit" /\ arg.module = FaceModule
IsFaceDict(arg) ==
    arg.kind = "dict" /\ arg.module = FaceModule /\ arg.input_image # NULL

\* C6: on an initialised object, for script arguments that hold a dict with
\* the face-identity module and an input_image, and no ControlNetUnit that
\* carries a face-identity image, extract_face_id_from_controlnet returns
\* that dict's input_image and does not raise; and it returns None when no
\* argument is such a dict or a face-identity unit with an image.
C6_LegacyDictFound ==
    (IsExtract /\ ret.external_cn # NULL)
    => LET args == ret.args
           units == {i \in 1..Len(args) :
                        IsFaceUnit(args[i]) /\ args[i].image # NoneImage}
           dicts == {i \in 1..Len(args) : IsFaceDict(args[i])}
       IN /\ (units = {} /\ dicts # {})
             => /\ ret.outcome = "return"
                /\ ret.value = args[CHOOSE i \in dicts : \A j \in dicts : i <= j].input_image
          /\ (units = {} /\ dicts = {})
             => /\ ret.outcome = "return"
                /\ ret.value = NULL

SucceededInits == {i \in 1..Len(init_log) : init_log[i].outcome = "return"}

\* C9: cn_models starts with "None"; once an init_controlnet call succeeded,
\* cn_models is "None" followed by the reported names that contain a
\* keyword, each once and in the reported order, after every successful call
\* (stated for the runs in which the neighbor reports the same names at
\* every call, where "the reported names" has one meaning).
C9_ModelsOnce ==
    /\ Len(cn_models) >= 1
    /\ cn_models[1] = "None"
    /\ \A r \in ReportedLists :
          (/\ SucceededInits # {}
           /\ \A i \in SucceededInits : init_log[i].models = r)
          => cn_models = <<"None">> \o KeepMatching(r)

\* C10: cn_available is true if and only if some earlier init_controlnet call
\* returned without raising.
C10_AvailableIffInitSucceeded ==
    cn_available <=> (SucceededInits # {})

====
